---- MODULE Spec2Model ----
(***************************************************************************)
(* Model of Dashboard/dashboard.py: one Streamlit script that is re-run    *)
(* top to bottom on every user interaction.  A render is a sequence of     *)
(* steps (load, sidebar, filter, metrics, charts, RFM grouping, quantile   *)
(* bucketing, score assignment, histograms); the only state that survives  *)
(* a render is the st.cache_data entry of load_data.                       *)
(*                                                                         *)
(* Calendar dates are day numbers; a pandas Timestamp is a number of hours *)
(* since the epoch, so that pd.to_datetime of a date is midnight of that   *)
(* day and Timedelta.days is a floor division.  NaN is carried explicitly. *)
(***************************************************************************)
EXTENDS Integers, Sequences, FiniteSets

VARIABLES file, cache, fileReads, renders, pc, steps, errorShown, all_df,
          criteria, filtered_df, metrics, rfm_df, num_bins

vars == <<file, cache, fileReads, renders, pc, steps, errorShown, all_df,
          criteria, filtered_df, metrics, rfm_df, num_bins>>

(* Largest number of rows of an all_data.csv the model explores. *)
MaxRows == 3

(* Largest number of runs of the script in one process the model explores. *)
MaxRenders == 2

(* pd.qcut(..., 4, ...): the number of quantiles asked for first. *)
NumQuantiles == 4

(* st.slider(..., min_value=0, max_value=24, value=(0, 24)) *)
SliderMin == 0
SliderMax == 24

(* st.multiselect(..., options=[1, 2, 3, 4], default=[1, 2, 3, 4]) *)
SeasonOptions == {1, 2, 3, 4}

(* The slider positions the model lets the user pick. *)
SliderStops == {SliderMin, 8, SliderMax}

---------------------------------------------------------------------------
(* Values *)

NaN == [nan |-> TRUE, v |-> 0]
Num(x) == [nan |-> FALSE, v |-> x]

RECURSIVE SumSeq(_)
SumSeq(s) == IF s = <<>> THEN 0 ELSE Head(s) + SumSeq(Tail(s))

Column(df, f) == [i \in 1..Len(df) |-> df[i][f]]

Range(s) == {s[i] : i \in 1..Len(s)}

SetToSortedSeq(S) ==
    [i \in 1..Cardinality(S) |->
        CHOOSE v \in S : Cardinality({w \in S : w < v}) = i - 1]

(* np.sort of a column: position i holds the value with fewer than i      *)
(* smaller entries and at least i entries not above it.                   *)
SortSeq(s) ==
    [i \in 1..Len(s) |->
        CHOOSE v \in Range(s) :
            /\ Cardinality({j \in 1..Len(s) : s[j] < v}) < i
            /\ i <= Cardinality({j \in 1..Len(s) : s[j] <= v})]

(* pd.to_datetime of a calendar date: midnight of that day. *)
ToDatetime(d) == d * 24

(* Timestamp.date(): the calendar day of a timestamp. *)
ToDate(ts) == ts \div 24

(* Timedelta.days *)
Days(td) == td \div 24

---------------------------------------------------------------------------
(* The input file *)

CsvRow(i, d, s, h, w, hour, c, r) ==
    [instant |-> i, dteday |-> d, season |-> s, holiday |-> h,
     workingday |-> w, hr |-> hour, casual |-> c, registered |-> r,
     cnt |-> c + r]

(* Rows an all_data.csv may hold (dteday as written in the file: a date). *)
RowPool ==
    << CsvRow(1, 1, 1, 0, 1, 0, 3, 7),
       CsvRow(2, 2, 1, 0, 1, 8, 5, 15),
       CsvRow(3, 3, 1, 1, 0, 23, 10, 20),
       CsvRow(4, 3, 2, 0, 1, 8, 4, 6),
       CsvRow(2, 3, 4, 1, 0, 0, 2, 8) >>

Increasing(s) == \A i \in 1..Len(s) : \A j \in 1..Len(s) : i < j => s[i] < s[j]

CsvFiles ==
    LET picks == UNION {[1..n -> 1..Len(RowPool)] : n \in 0..MaxRows}
    IN  {[i \in 1..Len(p) |-> RowPool[p[i]]] : p \in {q \in picks : Increasing(q)}}

Absent == [exists |-> FALSE, rows |-> <<>>]
Files == {Absent} \cup {[exists |-> TRUE, rows |-> f] : f \in CsvFiles}

---------------------------------------------------------------------------
(* load_data *)

(* pd.read_csv followed by the conversion of dteday to datetime. *)
ReadCsv(rows) ==
    [i \in 1..Len(rows) |-> [rows[i] EXCEPT !.dteday = ToDatetime(rows[i].dteday)]]

(* The body of load_data: what it returns and whether it called st.error. *)
LoadBody(f) ==
    IF ~f.exists THEN [df |-> <<>>, err |-> TRUE, read |-> 0]
    ELSE [df |-> ReadCsv(f.rows), err |-> FALSE, read |-> 1]

NoCache == [valid |-> FALSE, df |-> <<>>, err |-> FALSE]

---------------------------------------------------------------------------
(* Sidebar filters *)

MinDate(df) == ToDate(CHOOSE t \in Range(Column(df, "dteday")) :
                        \A u \in Range(Column(df, "dteday")) : t <= u)
MaxDate(df) == ToDate(CHOOSE t \in Range(Column(df, "dteday")) :
                        \A u \in Range(Column(df, "dteday")) : t >= u)

(* What the widgets return when the user touches nothing. *)
DefaultCriteria(df) ==
    [start_date |-> MinDate(df), end_date |-> MaxDate(df),
     season_filter |-> SeasonOptions,
     holiday_filter |-> FALSE, workingday_filter |-> FALSE,
     hour_filter |-> <<SliderMin, SliderMax>>]

(* Every combination the widgets can return for this Dataset: the date    *)
(* picker is limited to [min dteday, max dteday] and returns an ordered   *)
(* pair, the slider returns an ordered pair.                              *)
CriteriaFor(df) ==
    {c \in [start_date : MinDate(df)..MaxDate(df),
            end_date : MinDate(df)..MaxDate(df),
            season_filter : SUBSET SeasonOptions,
            holiday_filter : BOOLEAN, workingday_filter : BOOLEAN,
            hour_filter : SliderStops \X SliderStops] :
        c.start_date <= c.end_date /\ c.hour_filter[1] <= c.hour_filter[2]}

NoCriteria ==
    [start_date |-> 0, end_date |-> 0, season_filter |-> {},
     holiday_filter |-> FALSE, workingday_filter |-> FALSE,
     hour_filter |-> <<SliderMin, SliderMin>>]

---------------------------------------------------------------------------
(* Apply filters *)

(* Variant: an empty season selection falls back to all seasons. *)
DateSeasonMaskAllWhenEmpty(df, c) ==
    LET keep(r) == /\ r.dteday >= ToDatetime(c.start_date)
                   /\ r.dteday <= ToDatetime(c.end_date)
                   /\ (c.season_filter = {} \/ r.season \in c.season_filter)
    IN  SelectSeq(df, keep)

(* Variant: the end of the date range is exclusive. *)
DateSeasonMaskExclusiveEnd(df, c) ==
    LET keep(r) == /\ r.dteday >= ToDatetime(c.start_date)
                   /\ r.dteday < ToDatetime(c.end_date)
                   /\ r.season \in c.season_filter
    IN  SelectSeq(df, keep)

(* Variant: the start of the date range is exclusive. *)
DateSeasonMaskExclusiveStart(df, c) ==
    LET keep(r) == /\ r.dteday > ToDatetime(c.start_date)
                   /\ r.dteday <= ToDatetime(c.end_date)
                   /\ r.season \in c.season_filter
    IN  SelectSeq(df, keep)

(* all_df[(dteday >= start) & (dteday <= end) & season.isin(season_filter)] *)
DateSeasonMask(df, c) ==
    LET keep(r) == /\ r.dteday >= ToDatetime(c.start_date)
                   /\ r.dteday <= ToDatetime(c.end_date)
                   /\ r.season \in c.season_filter
    IN  SelectSeq(df, keep)

HolidayMask(df, c) ==
    LET keep(r) == r.holiday = 1
    IN  IF c.holiday_filter THEN SelectSeq(df, keep) ELSE df

WorkingdayMask(df, c) ==
    LET keep(r) == r.workingday = 1
    IN  IF c.workingday_filter THEN SelectSeq(df, keep) ELSE df

(* Variant: the upper end of the hour range is not applied. *)
HourMaskLowerOnly(df, c) ==
    LET keep(r) == r.hr >= c.hour_filter[1]
    IN  SelectSeq(df, keep)

HourMask(df, c) ==
    LET keep(r) == r.hr >= c.hour_filter[1] /\ r.hr <= c.hour_filter[2]
    IN  SelectSeq(df, keep)

FilterRows(df, c) ==
    HourMask(WorkingdayMask(HolidayMask(DateSeasonMask(df, c), c), c), c)

---------------------------------------------------------------------------
(* Statistik utama *)

(* round(x, 2) of sum/n, in hundredths, ties to even. *)
Round2(sum, n) ==
    LET q == (100 * sum) \div n
        r == (100 * sum) % n
    IN  IF 2 * r < n THEN q
        ELSE IF 2 * r > n THEN q + 1
        ELSE IF q % 2 = 0 THEN q ELSE q + 1

(* Series.mean() then round(., 2): NaN on an empty column. *)
MeanRounded(col) ==
    IF Len(col) = 0 THEN NaN ELSE Num(Round2(SumSeq(col), Len(col)))

ComputeMetrics(df) ==
    [total |-> SumSeq(Column(df, "cnt")),
     average |-> MeanRounded(Column(df, "cnt")),
     casual |-> SumSeq(Column(df, "casual")),
     registered |-> SumSeq(Column(df, "registered"))]

NoMetrics == [total |-> 0, average |-> NaN, casual |-> 0, registered |-> 0]

---------------------------------------------------------------------------
(* RFM *)

(* Variant: Frequency aggregates 'instant' with 'sum' instead of 'count'. *)
RfmGroupSumInstant(df, c) ==
    LET keys == SetToSortedSeq(Range(Column(df, "instant")))
        grp(k) == LET is(r) == r.instant = k IN SelectSeq(df, is)
        last(g) == CHOOSE t \in Range(Column(g, "dteday")) :
                      \A u \in Range(Column(g, "dteday")) : t >= u
    IN  [i \in 1..Len(keys) |->
            [instant |-> keys[i],
             Recency |-> Days(ToDatetime(c.end_date) - last(grp(keys[i]))),
             Frequency |-> SumSeq(Column(grp(keys[i]), "instant")),
             Monetary |-> SumSeq(Column(grp(keys[i]), "cnt")),
             R_Score |-> NaN, F_Score |-> NaN, M_Score |-> NaN, RFM_Score |-> 0]]

(* filtered_df.groupby('instant').agg(Recency, Frequency, Monetary): one  *)
(* row per distinct instant, in key order.                                *)
RfmGroup(df, c) ==
    LET keys == SetToSortedSeq(Range(Column(df, "instant")))
        grp(k) == LET is(r) == r.instant = k IN SelectSeq(df, is)
        last(g) == CHOOSE t \in Range(Column(g, "dteday")) :
                      \A u \in Range(Column(g, "dteday")) : t >= u
    IN  [i \in 1..Len(keys) |->
            [instant |-> keys[i],
             Recency |-> Days(ToDatetime(c.end_date) - last(grp(keys[i]))),
             Frequency |-> Len(grp(keys[i])),
             Monetary |-> SumSeq(Column(grp(keys[i]), "cnt")),
             R_Score |-> NaN, F_Score |-> NaN, M_Score |-> NaN, RFM_Score |-> 0]]

(* The factor every quantile edge is scaled by, to stay in the integers. *)
Scale(q) == IF q = 0 THEN 1 ELSE q

(* Series.quantile(k/q), linear interpolation, times Scale(q); NaN on an  *)
(* empty column.  np.linspace(0, 1, q + 1) is [0.] when q = 0.            *)
Quantile(col, k, q) ==
    LET srt == SortSeq(col)
        n == Len(col)
        pos == k * (n - 1)
        lo == pos \div Scale(q)
        rem == pos % Scale(q)
    IN  IF n = 0 THEN NaN
        ELSE IF rem = 0 THEN Num(Scale(q) * srt[lo + 1])
        ELSE Num(Scale(q) * srt[lo + 1] + rem * (srt[lo + 2] - srt[lo + 1]))

QuantileEdges(col, q) == [k \in 1..(q + 1) |-> Quantile(col, k - 1, q)]

(* algos.unique: first occurrences, in order. *)
UniqueEdges(e) ==
    LET first(i) == \A j \in 1..(i - 1) : e[j] # e[i]
        idx == SetToSortedSeq({i \in 1..Len(e) : first(i)})
    IN  [i \in 1..Len(idx) |-> e[idx[i]]]

(* _bins_to_cuts: duplicate edges are an error unless duplicates='drop'   *)
(* (two edges are never checked); labels must be one fewer than the edges.*)
(* ids: searchsorted(side='left'), the lowest edge included, outside NaN. *)
BinsToCuts(col, q, dropDuplicates, hasLabels, nLabels) ==
    LET edges == QuantileEdges(col, q)
        uniq == UniqueEdges(edges)
        dup == Len(uniq) < Len(edges) /\ Len(edges) # 2
        bins == IF dup THEN uniq ELSE edges
        id(x) == IF Num(Scale(q) * x) = bins[1] THEN 1
                 ELSE Cardinality({j \in 1..Len(bins) : bins[j].v < Scale(q) * x})
        code(x) == IF id(x) = 0 \/ id(x) = Len(bins) THEN NaN ELSE Num(id(x))
    IN  IF dup /\ ~dropDuplicates THEN [raised |-> TRUE, bins |-> edges, ids |-> <<>>]
        ELSE IF hasLabels /\ nLabels # Len(bins) - 1
             THEN [raised |-> TRUE, bins |-> bins, ids |-> <<>>]
        ELSE [raised |-> FALSE, bins |-> bins,
              ids |-> [i \in 1..Len(col) |-> code(col[i])]]

(* len(pd.qcut(col, 4, retbins=True, duplicates='drop')[1]) - 1 *)
NumBins(col) == Len(BinsToCuts(col, NumQuantiles, TRUE, FALSE, 0).bins) - 1

(* pd.qcut(col, n, labels=range(...)) with n labels: duplicates='raise'. *)
QcutScore(col, n) == BinsToCuts(col, n, FALSE, TRUE, n)

(* labels=range(n, 0, -1) and labels=range(1, n + 1) *)
DescendingLabel(code, n) == IF code.nan THEN NaN ELSE Num(n - code.v + 1)
AscendingLabel(code, n) == code

(* DataFrame.sum(axis=1): NaN scores are skipped. *)
ScoreSum(r) ==
    (IF r.R_Score.nan THEN 0 ELSE r.R_Score.v)
    + (IF r.F_Score.nan THEN 0 ELSE r.F_Score.v)
    + (IF r.M_Score.nan THEN 0 ELSE r.M_Score.v)

NoBins == [r |-> 0, f |-> 0, m |-> 0]

(* Lines 144-149: the three score columns, then their sum.  A qcut that   *)
(* raises ends the render with the columns assigned so far.               *)
AssignScores(rfm, nb) ==
    LET R == QcutScore(Column(rfm, "Recency"), nb.r)
        F == QcutScore(Column(rfm, "Frequency"), nb.f)
        M == QcutScore(Column(rfm, "Monetary"), nb.m)
        withR == [i \in 1..Len(rfm) |->
                    [rfm[i] EXCEPT !.R_Score = DescendingLabel(R.ids[i], nb.r)]]
        withF == [i \in 1..Len(rfm) |->
                    [withR[i] EXCEPT !.F_Score = AscendingLabel(F.ids[i], nb.f)]]
        withM == [i \in 1..Len(rfm) |->
                    [withF[i] EXCEPT !.M_Score = AscendingLabel(M.ids[i], nb.m)]]
    IN  IF R.raised THEN [raised |-> TRUE, df |-> rfm]
        ELSE IF F.raised THEN [raised |-> TRUE, df |-> withR]
        ELSE IF M.raised THEN [raised |-> TRUE, df |-> withF]
        ELSE [raised |-> FALSE,
              df |-> [i \in 1..Len(rfm) |->
                        [withM[i] EXCEPT !.RFM_Score = ScoreSum(withM[i])]]]

---------------------------------------------------------------------------
(* The render *)

Init ==
    /\ file \in Files
    /\ cache = NoCache
    /\ fileReads = 0
    /\ renders = 1
    /\ pc = "load"
    /\ steps = {}
    /\ errorShown = FALSE
    /\ all_df = <<>>
    /\ criteria = NoCriteria
    /\ filtered_df = <<>>
    /\ metrics = NoMetrics
    /\ rfm_df = <<>>
    /\ num_bins = NoBins

(* Variant: load_data without the st.cache_data decorator. *)
LoadResultUncached(c, f) == LoadBody(f)

(* @st.cache_data: the body runs only when nothing is memoized; a hit     *)
(* returns the memoized frame and replays the memoized st.error.          *)
LoadResult(c, f) ==
    IF c.valid THEN [df |-> c.df, err |-> c.err, read |-> 0] ELSE LoadBody(f)

(* Variant: the script goes on after an empty load. *)
AfterLoadNoStop(df) == "sidebar"

(* if all_df.empty: st.stop() *)
AfterLoad(df) == IF Len(df) = 0 THEN "stopped" ELSE "sidebar"

LoadData ==
    /\ pc = "load"
    /\ LET res == LoadResult(cache, file)
       IN  /\ cache' = [valid |-> TRUE, df |-> res.df, err |-> res.err]
           /\ fileReads' = fileReads + res.read
           /\ errorShown' = res.err
           /\ all_df' = res.df
           /\ pc' = AfterLoad(res.df)
    /\ steps' = steps \cup {"load"}
    /\ UNCHANGED <<file, renders, criteria, filtered_df, metrics, rfm_df,
                   num_bins>>

Sidebar ==
    /\ pc = "sidebar"
    /\ Len(all_df) > 0
    /\ \E c \in CriteriaFor(all_df) : criteria' = c
    /\ pc' = "filter"
    /\ steps' = steps \cup {"sidebar"}
    /\ UNCHANGED <<file, cache, fileReads, renders, errorShown, all_df, filtered_df,
                   metrics, rfm_df, num_bins>>

(* The user leaves every widget at its default. *)
SidebarDefault ==
    /\ pc = "sidebar"
    /\ Len(all_df) > 0
    /\ criteria' = DefaultCriteria(all_df)
    /\ pc' = "filter"
    /\ steps' = steps \cup {"sidebar"}
    /\ UNCHANGED <<file, cache, fileReads, renders, errorShown, all_df, filtered_df,
                   metrics, rfm_df, num_bins>>

(* While the user has picked only the first date of the range,            *)
(* st.date_input returns a 1-tuple and the unpacking raises ValueError.   *)
SidebarIncompleteRange ==
    /\ pc = "sidebar"
    /\ pc' = "raised"
    /\ steps' = steps \cup {"sidebar"}
    /\ UNCHANGED <<file, cache, fileReads, renders, errorShown, all_df, criteria,
                   filtered_df, metrics, rfm_df, num_bins>>

(* Variant: the filter rebinds all_df to the filtered rows. *)
ApplyFiltersInPlace ==
    /\ pc = "filter"
    /\ filtered_df' = FilterRows(all_df, criteria)
    /\ all_df' = FilterRows(all_df, criteria)
    /\ pc' = "metrics"
    /\ steps' = steps \cup {"filter"}
    /\ UNCHANGED <<file, cache, fileReads, renders, errorShown, criteria,
                   metrics, rfm_df, num_bins>>

ApplyFilters ==
    /\ pc = "filter"
    /\ filtered_df' = FilterRows(all_df, criteria)
    /\ pc' = "metrics"
    /\ steps' = steps \cup {"filter"}
    /\ UNCHANGED <<file, cache, fileReads, renders, errorShown, all_df, criteria,
                   metrics, rfm_df, num_bins>>

Metrics ==
    /\ pc = "metrics"
    /\ metrics' = ComputeMetrics(filtered_df)
    /\ pc' = "charts"
    /\ steps' = steps \cup {"metrics"}
    /\ UNCHANGED <<file, cache, fileReads, renders, errorShown, all_df, criteria,
                   filtered_df, rfm_df, num_bins>>

(* Lines 74-130: the charts read filtered_df and draw. *)
Charts ==
    /\ pc = "charts"
    /\ pc' = "rfm"
    /\ steps' = steps \cup {"charts"}
    /\ UNCHANGED <<file, cache, fileReads, renders, errorShown, all_df, criteria,
                   filtered_df, metrics, rfm_df, num_bins>>

RfmAggregate ==
    /\ pc = "rfm"
    /\ rfm_df' = RfmGroup(filtered_df, criteria)
    /\ pc' = "bins"
    /\ steps' = steps \cup {"rfm"}
    /\ UNCHANGED <<file, cache, fileReads, renders, errorShown, all_df, criteria,
                   filtered_df, metrics, num_bins>>

RfmNumBins ==
    /\ pc = "bins"
    /\ num_bins' = [r |-> NumBins(Column(rfm_df, "Recency")),
                    f |-> NumBins(Column(rfm_df, "Frequency")),
                    m |-> NumBins(Column(rfm_df, "Monetary"))]
    /\ pc' = "scores"
    /\ steps' = steps \cup {"bins"}
    /\ UNCHANGED <<file, cache, fileReads, renders, errorShown, all_df, criteria,
                   filtered_df, metrics, rfm_df>>

RfmScores ==
    /\ pc = "scores"
    /\ LET res == AssignScores(rfm_df, num_bins)
       IN  /\ rfm_df' = res.df
           /\ pc' = IF res.raised THEN "raised" ELSE "hist"
    /\ steps' = steps \cup {"scores"}
    /\ UNCHANGED <<file, cache, fileReads, renders, errorShown, all_df, criteria,
                   filtered_df, metrics, num_bins>>

(* Lines 151-164: the three histograms; the script ends. *)
RfmHistograms ==
    /\ pc = "hist"
    /\ pc' = "done"
    /\ steps' = steps \cup {"hist"}
    /\ UNCHANGED <<file, cache, fileReads, renders, errorShown, all_df, criteria,
                   filtered_df, metrics, rfm_df, num_bins>>

(* A user interaction re-runs the script from the top: every name of the  *)
(* script is unbound again, only the st.cache_data entry survives.        *)
Rerun ==
    /\ pc \in {"done", "stopped", "raised"}
    /\ renders < MaxRenders
    /\ renders' = renders + 1
    /\ pc' = "load"
    /\ steps' = {}
    /\ errorShown' = FALSE
    /\ all_df' = <<>>
    /\ criteria' = NoCriteria
    /\ filtered_df' = <<>>
    /\ metrics' = NoMetrics
    /\ rfm_df' = <<>>
    /\ num_bins' = NoBins
    /\ UNCHANGED <<file, cache, fileReads>>

(* Outside the program: all_data.csv is created, replaced or removed. *)
FileChange ==
    /\ \E f \in Files : f # file /\ file' = f
    /\ UNCHANGED <<cache, fileReads, renders, pc, steps, errorShown, all_df, criteria,
                   filtered_df, metrics, rfm_df, num_bins>>

Next ==
    \/ LoadData
    \/ Sidebar
    \/ SidebarIncompleteRange
    \/ ApplyFilters
    \/ Metrics
    \/ Charts
    \/ RfmAggregate
    \/ RfmNumBins
    \/ RfmScores
    \/ RfmHistograms
    \/ Rerun

Spec == Init /\ [][Next]_vars

(* A session in which the file changes under the running process and the  *)
(* user re-runs the script without touching the widgets.                  *)
SessionNext ==
    \/ LoadData
    \/ SidebarDefault
    \/ SidebarIncompleteRange
    \/ ApplyFilters
    \/ Metrics
    \/ Charts
    \/ RfmAggregate
    \/ RfmNumBins
    \/ RfmScores
    \/ RfmHistograms
    \/ Rerun
    \/ FileChange

SessionSpec == Init /\ [][SessionNext]_vars

---------------------------------------------------------------------------
(* Properties *)

(* The instant values of the Dataset are row-unique. *)
InstantUnique(df) ==
    \A i \in 1..Len(df) : \A j \in 1..Len(df) :
        df[i].instant = df[j].instant => i = j

(* The five predicates of the filter, on calendar dates and hours. *)
Qualifies(r) ==
    /\ criteria.start_date <= ToDate(r.dteday)
    /\ ToDate(r.dteday) <= criteria.end_date
    /\ r.season \in criteria.season_filter
    /\ (criteria.holiday_filter => r.holiday = 1)
    /\ (criteria.workingday_filter => r.workingday = 1)
    /\ criteria.hour_filter[1] <= r.hr
    /\ r.hr <= criteria.hour_filter[2]

(* The widgets are at their defaults: whole date span, all four seasons,  *)
(* both checkboxes off, hours (0, 24).                                    *)
Unfiltered ==
    /\ \A i \in 1..Len(all_df) : criteria.start_date <= ToDate(all_df[i].dteday)
    /\ \A i \in 1..Len(all_df) : ToDate(all_df[i].dteday) <= criteria.end_date
    /\ criteria.season_filter = {1, 2, 3, 4}
    /\ ~criteria.holiday_filter
    /\ ~criteria.workingday_filter
    /\ criteria.hour_filter = <<0, 24>>

(* C1: once the filter step has run, the filtered view holds only rows of *)
(* the Dataset, no more of them than the Dataset has, and every row in it *)
(* satisfies all five predicates of the criteria.                         *)
C1_FilterSound ==
    "filter" \in steps =>
        /\ Range(filtered_df) \subseteq Range(all_df)
        /\ Len(filtered_df) <= Len(all_df)
        /\ \A i \in 1..Len(filtered_df) : Qualifies(filtered_df[i])

(* A render whose filter dropped some rows and kept others, with the      *)
(* holiday checkbox set and a proper hour range.                          *)
C1_Witness ==
    /\ "filter" \in steps
    /\ Len(filtered_df) >= 1
    /\ Len(filtered_df) < Len(all_df)
    /\ criteria.holiday_filter
    /\ criteria.hour_filter = <<0, 8>>

(* C2 as stated: whenever the load step runs while the file is absent,    *)
(* the error is shown, the result is empty and the render halts.          *)
C2_AbsentFileAlwaysHalts ==
    [][(pc = "load" /\ pc' # "load" /\ ~file.exists) =>
          (errorShown' /\ Len(all_df') = 0 /\ pc' = "stopped")]_vars

(* C2 amended: when nothing is memoized and the file is absent as the     *)
(* loader body runs, the error is shown and the result is empty; whenever *)
(* the load returns an empty result the render halts right after the load *)
(* (only the load step has run, nothing raised) and stays halted until    *)
(* the next run of the script.                                            *)
C2_MissingFileHalts ==
    [][/\ (pc = "load" /\ pc' # "load") =>
            /\ (~cache.valid /\ ~file.exists) => (errorShown' /\ Len(all_df') = 0)
            /\ Len(all_df') = 0 => pc' = "stopped"
       /\ pc = "stopped" => (steps = {"load"} /\ pc' \in {"stopped", "load"})
      ]_vars

(* The first load found no file: error shown, render halted after load.   *)
C2_Witness ==
    /\ pc = "stopped"
    /\ errorShown
    /\ ~file.exists
    /\ fileReads = 0
    /\ steps = {"load"}
    /\ Len(all_df) = 0

(* C4: with an empty season selection the filtered view is empty and the  *)
(* metrics are 0, 0, 0 for the three totals and NaN for the average.      *)
C4_EmptySeason ==
    ("sidebar" \in steps /\ criteria.season_filter = {}) =>
        /\ "filter" \in steps => Len(filtered_df) = 0
        /\ "metrics" \in steps =>
              /\ metrics.total = 0
              /\ metrics.casual = 0
              /\ metrics.registered = 0
              /\ metrics.average.nan

(* Metrics computed for an empty season selection over several rows.      *)
C4_Witness ==
    /\ "metrics" \in steps
    /\ criteria.season_filter = {}
    /\ Len(all_df) >= 2
    /\ metrics.average.nan

(* C5: once the score step has run, the render has not raised.            *)
C5_BucketingNeverRaises ==
    "scores" \in steps => pc # "raised"

(* C6: for a Dataset with row-unique instant, the RFM table has one group *)
(* per filtered row, with Frequency 1, Monetary the row's cnt and Recency *)
(* the days from end_date back to the row's date.                         *)
C6_RfmPerRow ==
    ("rfm" \in steps /\ InstantUnique(all_df)) =>
        /\ Len(rfm_df) = Len(filtered_df)
        /\ \A i \in 1..Len(filtered_df) :
              /\ Cardinality({g \in 1..Len(rfm_df) :
                                rfm_df[g].instant = filtered_df[i].instant}) = 1
              /\ \A g \in 1..Len(rfm_df) :
                    rfm_df[g].instant = filtered_df[i].instant =>
                        /\ rfm_df[g].Frequency = 1
                        /\ rfm_df[g].Monetary = filtered_df[i].cnt
                        /\ rfm_df[g].Recency =
                              criteria.end_date - ToDate(filtered_df[i].dteday)

(* An RFM table of several groups, one of them two days before end_date.  *)
C6_Witness ==
    /\ "rfm" \in steps
    /\ InstantUnique(all_df)
    /\ Len(filtered_df) >= 2
    /\ Len(rfm_df) = Len(filtered_df)
    /\ \E g \in 1..Len(rfm_df) : rfm_df[g].Recency = 2

(* C7: with the default criteria and season in 1..4, hr in 0..23, the     *)
(* filtered view is the whole Dataset and Total rentals is its cnt sum.   *)
C7_UnfilteredIsAll ==
    ("filter" \in steps /\ Unfiltered
       /\ \A i \in 1..Len(all_df) :
             all_df[i].season \in 1..4 /\ all_df[i].hr \in 0..23) =>
        /\ filtered_df = all_df
        /\ "metrics" \in steps => metrics.total = SumSeq(Column(all_df, "cnt"))

(* Metrics of an unfiltered render of a Dataset spanning several days.    *)
C7_Witness ==
    /\ "metrics" \in steps
    /\ Unfiltered
    /\ Len(all_df) >= 2
    /\ \E i \in 1..Len(all_df) : ToDate(all_df[i].dteday) # criteria.end_date
    /\ metrics.total = SumSeq(Column(all_df, "cnt"))

(* The Dataset of the example: cnt 10, 20, 30 on days D1 < D2 < D3,       *)
(* season 1, restricted to [D1, D2].                                      *)
ExampleRender ==
    /\ Len(all_df) = 3
    /\ Column(all_df, "cnt") = <<10, 20, 30>>
    /\ all_df[1].dteday < all_df[2].dteday
    /\ all_df[2].dteday < all_df[3].dteday
    /\ \A i \in 1..3 : all_df[i].season = 1
    /\ criteria.start_date = ToDate(all_df[1].dteday)
    /\ criteria.end_date = ToDate(all_df[2].dteday)
    /\ criteria.season_filter = {1, 2, 3, 4}
    /\ ~criteria.holiday_filter
    /\ ~criteria.workingday_filter
    /\ criteria.hour_filter = <<0, 24>>

(* C8: the filtered view is exactly the Dataset's rows that satisfy the   *)
(* five predicates, in order, the ends of the date range and of the hour  *)
(* range included; in the example the view has 2 rows, Total is 30 and    *)
(* Average is 15.00.                                                      *)
C8_FilterComplete ==
    "filter" \in steps =>
        /\ filtered_df = SelectSeq(all_df, Qualifies)
        /\ criteria.hour_filter = <<8, 8>> =>
              \A i \in 1..Len(all_df) :
                 (all_df[i] \in Range(filtered_df)) <=>
                    (all_df[i].hr = 8 /\ Qualifies(all_df[i]))
        /\ ("metrics" \in steps /\ ExampleRender) =>
              /\ Len(filtered_df) = 2
              /\ metrics.total = 30
              /\ metrics.average = Num(1500)

(* The example render, with its metrics computed: rows dated start_date   *)
(* and end_date are both in the view.                                     *)
C8_Witness ==
    /\ "metrics" \in steps
    /\ ExampleRender
    /\ Len(filtered_df) = 2
    /\ ToDate(filtered_df[1].dteday) = criteria.start_date
    /\ ToDate(filtered_df[2].dteday) = criteria.end_date

(* C9: the file is read at most once; once a result is memoized neither   *)
(* it nor the read count changes, whatever happens to the file; and every *)
(* load step hands the render the memoized result.                        *)
C9_Memoized ==
    [][/\ fileReads' <= 1
       /\ cache.valid => (cache' = cache /\ fileReads' = fileReads)
       /\ (pc = "load" /\ pc' # "load") => all_df' = cache'.df
      ]_vars

(* A later render that was handed the Dataset of the first load although  *)
(* the file now holds something else.                                     *)
C9_Witness ==
    /\ renders = 2
    /\ "load" \in steps
    /\ fileReads = 1
    /\ Len(all_df) > 0
    /\ all_df = cache.df
    /\ file.exists
    /\ ReadCsv(file.rows) # all_df

(* C10: after the load step no step of the render changes the Dataset,    *)
(* and the memoized Dataset is the same in every render.                  *)
C10_DatasetNotMutated ==
    [][/\ ("load" \in steps /\ "load" \in steps') => all_df' = all_df
       /\ cache.valid => cache' = cache
       /\ "load" \in steps' => all_df' = cache'.df
      ]_vars

(* A second render that ran to its end with scores assigned in the RFM    *)
(* table, the Dataset being what the file holds.                          *)
C10_Witness ==
    /\ renders = 2
    /\ pc = "done"
    /\ Len(filtered_df) < Len(all_df)
    /\ \E g \in 1..Len(rfm_df) : ~rfm_df[g].R_Score.nan
    /\ all_df = ReadCsv(file.rows)
    /\ cache.df = all_df
====
